------------------------------ MODULE Spec2Model ------------------------------
(***************************************************************************)
(* Model of src/app.py, a Streamlit script that summarises YouTube videos:  *)
(* extract_video_id parses an 11-character identifier out of a URL,         *)
(* extract_transcript_details fetches and joins the transcript fragments,   *)
(* generate_gemini_content prefixes a fixed template and asks the           *)
(* generative service, and main orchestrates the three behind the           *)
(* "Analyze Video" button.  Streamlit re-executes the whole script on every *)
(* user interaction, so one run of the script is one request.               *)
(*                                                                         *)
(* Python strings are sequences of one-character strings.  None is a value  *)
(* that is no such sequence.                                                *)
(***************************************************************************)
EXTENDS Naturals, Sequences, FiniteSets

VARIABLES
    api_key,         \* os.getenv("GOOGLE_API_KEY"), line 11
    pc,              \* position of the script run
    configured,      \* genai.configure has been called, line 16
    youtube_link,    \* value of the text input, line 140
    summary_type,    \* value of the sidebar radio, line 117
    analyze_button,  \* the run was triggered by the Analyze button, line 159
    video_id,        \* main's local video_id, line 146
    transcript,      \* main's local transcript, line 165
    fragments,       \* what the transcript service returned to the last call
    summary,         \* main's local summary, line 169
    shown,           \* the elements the current run has rendered
    requested,       \* the video ids the current run sent to the transcript service
    sent,            \* the prompts the current run sent to the generative service
    runCalls,        \* the calls of the current run, in order
    clicks,          \* Analyze clicks so far
    sameLinkClicks,  \* Analyze clicks since the link last changed
    transcriptCalls, \* requests received by the transcript service
    genCalls         \* requests received by the generative service

vars == << api_key, pc, configured, youtube_link, summary_type, analyze_button,
           video_id, transcript, fragments, requested, sent, summary, shown,
           runCalls, clicks, sameLinkClicks, transcriptCalls, genCalls >>

-----------------------------------------------------------------------------
(* Values *)

None == << "None" >>

\* Python truthiness of an Optional[str]: None and "" are both falsy.
Truthy(x) == x # None /\ x # << >>

\* The character class [0-9A-Za-z_-] of lines 59-60.
IdChars ==
    { "0", "1", "2", "3", "4", "5", "6", "7", "8", "9",
      "A", "B", "C", "D", "E", "F", "G", "H", "I", "J", "K", "L", "M",
      "N", "O", "P", "Q", "R", "S", "T", "U", "V", "W", "X", "Y", "Z",
      "a", "b", "c", "d", "e", "f", "g", "h", "i", "j", "k", "l", "m",
      "n", "o", "p", "q", "r", "s", "t", "u", "v", "w", "x", "y", "z",
      "_", "-" }

\* The quantifier {11} of lines 59-60.
IdLen == 11

-----------------------------------------------------------------------------
(* Inputs: the pieces a user's URL is assembled from *)

UrlWatch ==
    << "h", "t", "t", "p", "s", ":", "/", "/", "w", "w", "w", ".", "y", "o", "u", "t",
       "u", "b", "e", ".", "c", "o", "m", "/", "w", "a", "t", "c", "h", "?" >>

UrlShort ==
    << "h", "t", "t", "p", "s", ":", "/", "/", "y", "o", "u", "t", "u", ".", "b", "e",
       "/" >>

UrlEmbed ==
    << "h", "t", "t", "p", "s", ":", "/", "/", "w", "w", "w", ".", "y", "o", "u", "t",
       "u", "b", "e", ".", "c", "o", "m", "/", "e", "m", "b", "e", "d", "/" >>

UrlAttribution ==
    << "h", "t", "t", "p", "s", ":", "/", "/", "w", "w", "w", ".", "y", "o", "u", "t",
       "u", "b", "e", ".", "c", "o", "m", "/", "a", "t", "t", "r", "i", "b", "u", "t",
       "i", "o", "n", "_", "l", "i", "n", "k", "?", "u", "=", "/", "w", "a", "t", "c",
       "h", "?" >>

ParamV ==
    << "v", "=" >>

IdRick ==
    << "d", "Q", "w", "4", "w", "9", "W", "g", "X", "c", "Q" >>

IdShort ==
    << "d", "Q", "w", "4", "w", "9", "W", "g", "X", "c" >>

ParamT ==
    << "&", "t", "=", "5", "s" >>

NotAUrl ==
    << "n", "o", "t", " ", "a", " ", "u", "r", "l" >>

DetailedTemplate ==
    << "Y", "o", "u", " ", "a", "r", "e", " ", "a", " ", "Y", "o", "u", "T", "u", "b",
       "e", " ", "v", "i", "d", "e", "o", " ", "s", "u", "m", "m", "a", "r", "i", "z",
       "e", "r", " ", "s", "p", "e", "c", "i", "a", "l", "l", "y", " ", "f", "o", "r",
       " ", "l", "e", "c", "t", "u", "r", "e", " ", "v", "i", "d", "e", "o", "s", ".",
       " ", "\n", " ", " ", " ", " ", " ", " ", " ", " ", " ", " ", " ", " ", "P", "r",
       "o", "v", "i", "d", "e", " ", "a", " ", "d", "e", "t", "a", "i", "l", "e", "d",
       " ", "s", "u", "m", "m", "a", "r", "y", " ", "o", "f", " ", "t", "h", "e", " ",
       "f", "o", "l", "l", "o", "w", "i", "n", "g", " ", "t", "r", "a", "n", "s", "c",
       "r", "i", "p", "t", " ", "w", "i", "t", "h", "i", "n", " ", "2", "5", "0", " ",
       "w", "o", "r", "d", "s", ".", " ", "\n", " ", " ", " ", " ", " ", " ", " ", " ",
       " ", " ", " ", " ", "I", "n", "c", "l", "u", "d", "e", " ", "m", "a", "i", "n",
       " ", "t", "o", "p", "i", "c", "s", " ", "c", "o", "v", "e", "r", "e", "d", ",",
       " ", "k", "e", "y", " ", "t", "a", "k", "e", "a", "w", "a", "y", "s", ",", " ",
       "a", "n", "d", " ", "i", "m", "p", "o", "r", "t", "a", "n", "t", " ", "c", "o",
       "n", "c", "e", "p", "t", "s", " ", "d", "i", "s", "c", "u", "s", "s", "e", "d",
       ".", "\n", " ", " ", " ", " ", " ", " ", " ", " ", " ", " ", " ", " ", "F", "o",
       "r", "m", "a", "t", " ", "t", "h", "e", " ", "o", "u", "t", "p", "u", "t", " ",
       "w", "i", "t", "h", " ", "p", "r", "o", "p", "e", "r", " ", "h", "e", "a", "d",
       "i", "n", "g", "s", " ", "a", "n", "d", " ", "b", "u", "l", "l", "e", "t", " ",
       "p", "o", "i", "n", "t", "s", " ", "w", "h", "e", "r", "e", " ", "a", "p", "p",
       "r", "o", "p", "r", "i", "a", "t", "e", ".", "\n", " ", " ", " ", " ", " ", " ",
       " ", " ", " ", " ", " ", " ", "\n", " ", " ", " ", " ", " ", " ", " ", " ", " ",
       " ", " ", " ", "T", "r", "a", "n", "s", "c", "r", "i", "p", "t", ":", " " >>

QuickTemplate ==
    << "P", "r", "o", "v", "i", "d", "e", " ", "a", " ", "b", "r", "i", "e", "f", ",",
       " ", "c", "o", "n", "c", "i", "s", "e", " ", "s", "u", "m", "m", "a", "r", "y",
       " ", "o", "f", " ", "t", "h", "e", " ", "m", "a", "i", "n", " ", "p", "o", "i",
       "n", "t", "s", " ", "f", "r", "o", "m", " ", "t", "h", "i", "s", " ", "v", "i",
       "d", "e", "o", " ", "t", "r", "a", "n", "s", "c", "r", "i", "p", "t", " ", "\n",
       " ", " ", " ", " ", " ", " ", " ", " ", " ", " ", " ", " ", "i", "n", " ", "n",
       "o", " ", "m", "o", "r", "e", " ", "t", "h", "a", "n", " ", "1", "0", "0", " ",
       "w", "o", "r", "d", "s", ".", " ", "F", "o", "c", "u", "s", " ", "o", "n", " ",
       "t", "h", "e", " ", "c", "o", "r", "e", " ", "m", "e", "s", "s", "a", "g", "e",
       " ", "a", "n", "d", " ", "k", "e", "y", " ", "t", "a", "k", "e", "a", "w", "a",
       "y", "s", ".", "\n", " ", " ", " ", " ", " ", " ", " ", " ", " ", " ", " ", " ",
       "\n", " ", " ", " ", " ", " ", " ", " ", " ", " ", " ", " ", " ", "T", "r", "a",
       "n", "s", "c", "r", "i", "p", "t", ":", " " >>

ApiKey ==
    << "A", "I", "z", "a" >>

\* The strings a user's URL is assembled from.
Pieces ==
    { UrlWatch, UrlShort, UrlEmbed, UrlAttribution, ParamV, IdRick, IdShort,
      ParamT, NotAUrl }

\* Longest URL, in pieces, handed to extract_video_id on its own.
MaxUrlPieces == 3

\* Longest URL, in pieces, typed into the text input of main or handed to
\* extract_transcript_details on its own.
MaxLinkPieces == 2

\* Most fragments in a reply of the transcript service.
MaxFragments == 3

\* Most fragments in a reply of the transcript service to a run of main.
MaxMainFragments == 1

\* Most Analyze clicks in one behaviour.
MaxRequests == 2

RECURSIVE Concats(_)
Concats(n) ==
    IF n = 0 THEN { << >> }
    ELSE LET S == Concats(n - 1) IN S \cup { s \o p : s \in S, p \in Pieces }

Urls == Concats(MaxUrlPieces)

Links == Concats(MaxLinkPieces)

\* Texts of transcript fragments.
FragmentTexts ==
    { << "A" >>, << "B" >>, << "C" >>, << >> }

RECURSIVE FragmentLists(_)
FragmentLists(n) ==
    IF n = 0 THEN { << >> }
    ELSE LET S == FragmentLists(n - 1)
         IN S \cup { Append(f, t) : f \in S, t \in FragmentTexts }

\* What YouTubeTranscriptApi.get_transcript can do: raise, or return the
\* fragments' texts in order.
TranscriptReplies(n) ==
    { [ok |-> FALSE, items |-> << >>] }
        \cup { [ok |-> TRUE, items |-> f] : f \in FragmentLists(n) }

\* What model.generate_content and response.text can do: the request raises,
\* the response holds no text (response.text raises), or it holds a text.
GenerationReplies ==
    { [kind |-> "raise", text |-> << >>],
      [kind |-> "blocked", text |-> << >>],
      [kind |-> "text", text |-> << >>],
      [kind |-> "text", text |-> << "S", "u", "m" >>] }

-----------------------------------------------------------------------------
(* extract_video_id, lines 56-67 *)

\* The patterns of lines 58-61, in order: each is a list of alternative
\* literals followed by the captured group ([0-9A-Za-z_-]{11}); the trailing
\* .* matches any rest, the empty one included, and captures nothing.
Patterns ==
    << << << "v", "=" >>, << "/" >> >>,
       << << "b", "e", "/" >> >> >>

LiteralAt(s, i, lit) ==
    /\ i + Len(lit) - 1 <= Len(s)
    /\ SubSeq(s, i, i + Len(lit) - 1) = lit

\* GroupAt with the quantifier one short: the last character of the group is
\* not checked.
GroupAt_OneShort(s, j) ==
    /\ j + IdLen - 1 <= Len(s)
    /\ \A k \in j..(j + IdLen - 2) : s[k] \in IdChars

GroupAt(s, j) ==
    /\ j + IdLen - 1 <= Len(s)
    /\ \A k \in j..(j + IdLen - 1) : s[k] \in IdChars

\* Whether alternative a of a pattern matches at position i.
MatchAt(alts, s, i, a) ==
    LiteralAt(s, i, alts[a]) /\ GroupAt(s, i + Len(alts[a]))

RECURSIVE re_search(_, _, _)
\* re.search(pattern, s) scanning from position i: the leftmost position
\* where an alternative of the pattern matches; the result is match.group(1),
\* or None.  At one position at most one alternative can match, as the
\* literals start with different characters.
re_search(alts, s, i) ==
    IF i > Len(s) THEN None
    ELSE IF \E a \in 1..Len(alts) : MatchAt(alts, s, i, a)
    THEN LET a == CHOOSE b \in 1..Len(alts) : MatchAt(alts, s, i, b)
             j == i + Len(alts[a])
         IN  SubSeq(s, j, j + IdLen - 1)
    ELSE re_search(alts, s, i + 1)

RECURSIVE FirstMatch(_, _)
\* for pattern in patterns: ... if match: return match.group(1); return None
FirstMatch(k, s) ==
    IF k > Len(Patterns) THEN None
    ELSE LET m == re_search(Patterns[k], s, 1)
         IN  IF m # None THEN m ELSE FirstMatch(k + 1, s)

extract_video_id(youtube_url) == FirstMatch(1, youtube_url)

-----------------------------------------------------------------------------
(* extract_transcript_details, lines 69-82 *)

RECURSIVE Join_NoSeparator(_)
\* Join with the separator forgotten: "".join(...).
Join_NoSeparator(items) ==
    IF Len(items) = 0 THEN << >>
    ELSE items[1] \o Join_NoSeparator(Tail(items))

RECURSIVE Join(_)
\* " ".join(item["text"] for item in transcript_youtube)
Join(items) ==
    IF Len(items) = 0 THEN << >>
    ELSE IF Len(items) = 1 THEN items[1]
    ELSE items[1] \o << " " >> \o Join(Tail(items))

\* extract_transcript_details without the test of line 73: the service is
\* asked for whatever the extractor returned.
extract_transcript_details_NoCheck(youtube_video_url, replies) ==
    UNION {
        { IF r.ok /\ Truthy(id)
          THEN [ret |-> Join(r.items), error |-> "",
                requested |-> << id >>, reply |-> << r >>]
          ELSE [ret |-> None, error |-> "Error: transcript service",
                requested |-> << id >>, reply |-> << r >>]
          : r \in replies }
        : id \in { extract_video_id(youtube_video_url) } }

\* The outcomes of one call, the transcript service answering with any of
\* replies: ret is the value returned, error the message handed to st.error
\* ("" for none), requested the video ids sent to the transcript service and
\* reply what it answered.  Without an id the call raises before line 76.
extract_transcript_details(youtube_video_url, replies) ==
    UNION {
        IF ~Truthy(id)
        THEN { [ret |-> None, error |-> "Error: Invalid YouTube URL",
                requested |-> << >>, reply |-> << >>] }
        ELSE { IF r.ok
               THEN [ret |-> Join(r.items), error |-> "",
                     requested |-> << id >>, reply |-> << r >>]
               ELSE [ret |-> None, error |-> "Error: transcript service",
                     requested |-> << id >>, reply |-> << r >>]
               : r \in replies }
        : id \in { extract_video_id(youtube_video_url) } }

-----------------------------------------------------------------------------
(* generate_gemini_content, lines 84-105 *)

\* Template with the branches of lines 86-97 exchanged.
Template_Swapped(type) ==
    IF type = "detailed" THEN QuickTemplate ELSE DetailedTemplate

\* Lines 86-97: the template chosen by summary_type.
Template(type) ==
    IF type = "detailed" THEN DetailedTemplate ELSE QuickTemplate

\* generate_gemini_content trying a second time when the request raises.
generate_gemini_content_Retry(transcript_youtube, type, replies) ==
    IF transcript_youtube = None
    THEN { [ret |-> None, error |-> "Error generating summary",
            sent |-> << >>] }
    ELSE { IF r.kind = "text"
           THEN [ret |-> r.text, error |-> "",
                 sent |-> << Template(type) \o transcript_youtube >>]
           ELSE [ret |-> None, error |-> "Error generating summary",
                 sent |-> << Template(type) \o transcript_youtube,
                             Template(type) \o transcript_youtube >>]
           : r \in replies }

\* The outcomes of one call, the generative service answering with any of
\* replies: ret is the value returned, error the message handed to st.error
\* ("" for none), sent the prompts submitted by model.generate_content.
\* prompt + None raises before anything is sent.
generate_gemini_content(transcript_youtube, type, replies) ==
    IF transcript_youtube = None
    THEN { [ret |-> None, error |-> "Error generating summary",
            sent |-> << >>] }
    ELSE { IF r.kind = "text"
           THEN [ret |-> r.text, error |-> "",
                 sent |-> << Template(type) \o transcript_youtube >>]
           ELSE [ret |-> None, error |-> "Error generating summary",
                 sent |-> << Template(type) \o transcript_youtube >>]
           : r \in replies }

\* Line 171: the argument main passes for the radio's value.
ModeOf(radio) ==
    IF radio = "Quick Summary" THEN "quick" ELSE "detailed"

SummaryTypes == { "Quick Summary", "Detailed Summary" }

-----------------------------------------------------------------------------
(* The script, one run per user interaction *)

\* What a run starts from: nothing rendered, no local bound yet.
FreshRun ==
    /\ video_id' = None
    /\ transcript' = None
    /\ fragments' = << >>
    /\ requested' = << >>
    /\ sent' = << >>
    /\ summary' = None
    /\ shown' = {}
    /\ runCalls' = << >>

Init ==
    /\ api_key \in { None, << >>, ApiKey }
    /\ pc = "startup"
    /\ configured = FALSE
    /\ youtube_link = << >>
    /\ summary_type = "Detailed Summary"
    /\ analyze_button = FALSE
    /\ video_id = None
    /\ transcript = None
    /\ fragments = << >>
    /\ requested = << >>
    /\ sent = << >>
    /\ summary = None
    /\ shown = {}
    /\ runCalls = << >>
    /\ clicks = 0
    /\ sameLinkClicks = 0
    /\ transcriptCalls = 0
    /\ genCalls = 0

\* Startup testing "api_key is None" instead of "not api_key": an empty
\* credential passes.
Startup_NoneOnly ==
    /\ pc = "startup"
    /\ IF api_key = None
       THEN /\ shown' = shown \cup { "config_error" }
            /\ pc' = "stopped"
            /\ UNCHANGED configured
       ELSE /\ configured' = TRUE
            /\ pc' = "main"
            /\ UNCHANGED shown
    /\ UNCHANGED << api_key, youtube_link, summary_type, analyze_button,
                    video_id, transcript, fragments, requested, sent, summary,
                    runCalls, clicks, sameLinkClicks, transcriptCalls,
                    genCalls >>

\* Lines 9-16: without a credential the run reports it and stops; with one
\* it configures the generative client and goes on to main.
Startup ==
    /\ pc = "startup"
    /\ IF ~Truthy(api_key)
       THEN /\ shown' = shown \cup { "config_error" }
            /\ pc' = "stopped"
            /\ UNCHANGED configured
       ELSE /\ configured' = TRUE
            /\ pc' = "main"
            /\ UNCHANGED shown
    /\ UNCHANGED << api_key, youtube_link, summary_type, analyze_button,
                    video_id, transcript, fragments, requested, sent, summary,
                    runCalls, clicks, sameLinkClicks, transcriptCalls,
                    genCalls >>

\* Lines 145-162 and 179-180: extract the id of the entered link; render the
\* preview and the button, or the warning.  The preview's image is a URL
\* handed to the browser; the script itself requests nothing for it.
Main_ExtractId ==
    /\ pc = "main"
    /\ IF youtube_link = << >>
       THEN /\ pc' = "done"
            /\ UNCHANGED << video_id, shown, runCalls >>
       ELSE /\ video_id' = extract_video_id(youtube_link)
            /\ runCalls' = Append(runCalls, "extract_video_id")
            /\ IF Truthy(video_id')
               THEN /\ shown' = shown \cup { "preview" }
                    /\ pc' = IF analyze_button THEN "fetching" ELSE "done"
               ELSE /\ shown' = shown \cup { "warning" }
                    /\ pc' = "done"
    /\ UNCHANGED << api_key, configured, youtube_link, summary_type,
                    analyze_button, transcript, fragments, requested, sent,
                    summary, clicks, sameLinkClicks, transcriptCalls,
                    genCalls >>

\* One call of extract_transcript_details(url), with its effects on the page
\* and on the transcript service.
FetchTranscript(url, replies) ==
    \E r \in extract_transcript_details(url, replies) :
        /\ transcript' = r.ret
        /\ requested' = requested \o r.requested
        /\ transcriptCalls' = transcriptCalls + Len(r.requested)
        /\ fragments' = IF r.reply # << >> /\ r.reply[1].ok
                        THEN r.reply[1].items ELSE << >>
        /\ shown' = IF r.error = "" THEN shown
                    ELSE IF r.error = "Error: Invalid YouTube URL"
                    THEN shown \cup { "error_invalid_url" }
                    ELSE shown \cup { "error_transcript" }
        /\ runCalls' = runCalls
                         \o << "extract_transcript_details",
                               "extract_video_id" >>
                         \o [ i \in 1..Len(r.requested) |->
                                IF r.reply[i].ok THEN "get_transcript:ok"
                                ELSE "get_transcript:raise" ]

\* Main_FetchTranscript without the test of line 167: the summary is asked
\* for whatever the fetch returned.
Main_FetchTranscript_GoesOn ==
    /\ pc = "fetching"
    /\ FetchTranscript(youtube_link, TranscriptReplies(MaxMainFragments))
    /\ pc' = "summarizing"
    /\ UNCHANGED << api_key, configured, youtube_link, summary_type,
                    analyze_button, video_id, sent, summary, clicks,
                    sameLinkClicks, genCalls >>

\* Lines 162-167: the button's branch calls extract_transcript_details and
\* goes on only with a truthy transcript.
Main_FetchTranscript ==
    /\ pc = "fetching"
    /\ FetchTranscript(youtube_link, TranscriptReplies(MaxMainFragments))
    /\ pc' = IF Truthy(transcript') THEN "summarizing" ELSE "done"
    /\ UNCHANGED << api_key, configured, youtube_link, summary_type,
                    analyze_button, video_id, sent, summary, clicks,
                    sameLinkClicks, genCalls >>

\* Lines 168-177: ask for the summary in the radio's mode and render it if
\* it is truthy.
Main_GenerateSummary ==
    /\ pc = "summarizing"
    /\ \E r \in generate_gemini_content(transcript, ModeOf(summary_type),
                                         GenerationReplies) :
              /\ summary' = r.ret
              /\ sent' = sent \o r.sent
              /\ genCalls' = genCalls + Len(r.sent)
              /\ runCalls' = runCalls \o << "generate_gemini_content" >>
                                      \o [ i \in 1..Len(r.sent) |->
                                             "generate_content" ]
              /\ shown' = (IF r.error = "" THEN shown
                           ELSE shown \cup { "error_generation" })
                            \cup (IF Truthy(r.ret) THEN { "summary" } ELSE {})
    /\ pc' = "done"
    /\ UNCHANGED << api_key, configured, youtube_link, summary_type,
                    analyze_button, video_id, transcript, fragments,
                    requested, clicks, sameLinkClicks, transcriptCalls >>

\* The run returns from main: its locals are gone, the page stays.
ScriptEnd ==
    /\ pc = "done"
    /\ pc' = "idle"
    /\ video_id' = None
    /\ transcript' = None
    /\ fragments' = << >>
    /\ requested' = << >>
    /\ sent' = << >>
    /\ summary' = None
    /\ runCalls' = << >>
    /\ UNCHANGED << api_key, configured, youtube_link, summary_type,
                    analyze_button, shown, clicks, sameLinkClicks,
                    transcriptCalls, genCalls >>

\* The user extends the text of the input (line 140); the script reruns.
EnterLink ==
    /\ pc = "idle"
    /\ \E p \in Pieces :
          /\ youtube_link \o p \in Links
          /\ youtube_link' = youtube_link \o p
    /\ analyze_button' = FALSE
    /\ sameLinkClicks' = 0
    /\ pc' = "startup"
    /\ FreshRun
    /\ UNCHANGED << api_key, configured, summary_type, clicks,
                    transcriptCalls, genCalls >>

\* The user empties the input; the script reruns.
ClearLink ==
    /\ pc = "idle"
    /\ youtube_link # << >>
    /\ youtube_link' = << >>
    /\ analyze_button' = FALSE
    /\ sameLinkClicks' = 0
    /\ pc' = "startup"
    /\ FreshRun
    /\ UNCHANGED << api_key, configured, summary_type, clicks,
                    transcriptCalls, genCalls >>

\* The user picks the other radio option (line 117); the script reruns.
SelectSummaryType ==
    /\ pc = "idle"
    /\ \E t \in SummaryTypes \ { summary_type } : summary_type' = t
    /\ analyze_button' = FALSE
    /\ pc' = "startup"
    /\ FreshRun
    /\ UNCHANGED << api_key, configured, youtube_link, clicks,
                    sameLinkClicks, transcriptCalls, genCalls >>

\* ClickAnalyze with the button rendered outside the test of line 147.
ClickAnalyze_Ungated ==
    /\ pc = "idle"
    /\ clicks < MaxRequests
    /\ analyze_button' = TRUE
    /\ clicks' = clicks + 1
    /\ sameLinkClicks' = sameLinkClicks + 1
    /\ pc' = "startup"
    /\ video_id' = None
    /\ transcript' = None
    /\ fragments' = << >>
    /\ requested' = << >>
    /\ sent' = << >>
    /\ summary' = None
    /\ shown' = {}
    /\ runCalls' = << >>
    /\ UNCHANGED << api_key, configured, youtube_link, summary_type,
                    transcriptCalls, genCalls >>

\* The user clicks "Analyze Video" (line 159), which only a run that showed
\* the preview has rendered; the script reruns with the button set.
ClickAnalyze ==
    /\ pc = "idle"
    /\ "preview" \in shown
    /\ clicks < MaxRequests
    /\ analyze_button' = TRUE
    /\ clicks' = clicks + 1
    /\ sameLinkClicks' = sameLinkClicks + 1
    /\ pc' = "startup"
    /\ FreshRun
    /\ UNCHANGED << api_key, configured, youtube_link, summary_type,
                    transcriptCalls, genCalls >>

\* The user reloads the page: a new session with the widgets' defaults.
Reload ==
    /\ pc \in { "idle", "stopped" }
    /\ youtube_link' = << >>
    /\ summary_type' = "Detailed Summary"
    /\ analyze_button' = FALSE
    /\ sameLinkClicks' = 0
    /\ pc' = "startup"
    /\ FreshRun
    /\ UNCHANGED << api_key, configured, clicks, transcriptCalls, genCalls >>

Next ==
    \/ Startup
    \/ Main_ExtractId
    \/ Main_FetchTranscript
    \/ Main_GenerateSummary
    \/ ScriptEnd
    \/ EnterLink
    \/ ClearLink
    \/ SelectSummaryType
    \/ ClickAnalyze
    \/ Reload

Spec == Init /\ [][Next]_vars

-----------------------------------------------------------------------------
(* The functions called on their own *)

UnitInit ==
    /\ api_key = ApiKey
    /\ pc = "unit"
    /\ configured = TRUE
    /\ youtube_link = << >>
    /\ summary_type = "Detailed Summary"
    /\ analyze_button = FALSE
    /\ video_id = None
    /\ transcript = None
    /\ fragments = << >>
    /\ requested = << >>
    /\ sent = << >>
    /\ summary = None
    /\ shown = {}
    /\ runCalls = << >>
    /\ clicks = 0
    /\ sameLinkClicks = 0
    /\ transcriptCalls = 0
    /\ genCalls = 0

\* video_id = extract_video_id(url)
Call_extract_video_id ==
    /\ pc = "unit"
    /\ \E url \in Urls :
          /\ youtube_link' = url
          /\ video_id' = extract_video_id(url)
    /\ runCalls' = Append(runCalls, "extract_video_id")
    /\ pc' = "extracted"
    /\ UNCHANGED << api_key, configured, summary_type, analyze_button,
                    transcript, fragments, requested, sent, summary, shown,
                    clicks, sameLinkClicks, transcriptCalls, genCalls >>

\* transcript = extract_transcript_details(url)
Call_extract_transcript_details ==
    /\ pc = "unit"
    /\ \E url \in Links :
          /\ youtube_link' = url
          /\ FetchTranscript(url, TranscriptReplies(MaxFragments))
    /\ pc' = "fetched"
    /\ UNCHANGED << api_key, configured, summary_type, analyze_button,
                    video_id, sent, summary, clicks, sameLinkClicks,
                    genCalls >>

UnitNext ==
    \/ Call_extract_video_id
    \/ Call_extract_transcript_details

UnitSpec == UnitInit /\ [][UnitNext]_vars

-----------------------------------------------------------------------------
(* Properties of extract_video_id, checked under UnitSpec *)

IsIdAt(s, j) ==
    /\ j >= 1
    /\ j + 10 <= Len(s)
    /\ \A k \in j..(j + 10) : s[k] \in IdChars

\* The 11-character ids that follow an occurrence of the literal lit in s.
IdsAfter(s, lit) ==
    { SubSeq(s, i + Len(lit), i + Len(lit) + 10) :
        i \in { k \in 1..Len(s) :
                  /\ k + Len(lit) - 1 <= Len(s)
                  /\ \A d \in 1..Len(lit) : s[k + d - 1] = lit[d]
                  /\ IsIdAt(s, k + Len(lit)) } }

QueryForm == << "v", "=" >>

ShortForm == << "y", "o", "u", "t", "u", ".", "b", "e", "/" >>

SlashForm == << "/" >>

\* C1: a string that contains v=<11-char-id> or youtu.be/<11-char-id> makes
\* extract_video_id return such an id of it, whatever surrounds it.
C1_MarkedIdIsReturned ==
    pc = "extracted"
        /\ IdsAfter(youtube_link, QueryForm)
             \cup IdsAfter(youtube_link, ShortForm) # {}
    => video_id \in IdsAfter(youtube_link, QueryForm)
                      \cup IdsAfter(youtube_link, ShortForm)

\* C2 as stated: a string that contains neither v=<11-char-id> nor
\* youtu.be/<11-char-id> makes extract_video_id return None.
C2_NoMarkedIdGivesNone ==
    pc = "extracted"
        /\ IdsAfter(youtube_link, QueryForm) = {}
        /\ IdsAfter(youtube_link, ShortForm) = {}
    => video_id = None

\* C2 as amended: a string that contains neither v=<11-char-id> nor
\* /<11-char-id> makes extract_video_id return None.
C2_NoQueryOrSlashIdGivesNone ==
    pc = "extracted"
        /\ IdsAfter(youtube_link, QueryForm) = {}
        /\ IdsAfter(youtube_link, SlashForm) = {}
    => video_id = None

\* C2: the extractor has been given a watch URL whose v= parameter is one
\* character short, and has answered None.
C2_Witness ==
    /\ pc = "extracted"
    /\ youtube_link = UrlWatch \o ParamV \o IdShort
    /\ IdsAfter(youtube_link, QueryForm) = {}
    /\ IdsAfter(youtube_link, SlashForm) = {}
    /\ video_id = None

-----------------------------------------------------------------------------
(* Properties of extract_transcript_details, checked under UnitSpec *)

\* How often the call tag appears in the run's call trace.
Count(trace, tag) == Cardinality({ i \in 1..Len(trace) : trace[i] = tag })

Called(tag) == Count(runCalls, tag) > 0

ExternalCalls ==
    Count(runCalls, "get_transcript:ok")
        + Count(runCalls, "get_transcript:raise")
        + Count(runCalls, "generate_content")

\* C3: extract_transcript_details on a URL without an id returns no
\* transcript and shows an error, and no external service has been called.
C3_NoIdFailsBeforeAnyCall ==
    pc = "fetched" /\ extract_video_id(youtube_link) = None
    => /\ transcript = None
       /\ "error_invalid_url" \in shown
       /\ ExternalCalls = 0
       /\ requested = << >>
       /\ sent = << >>
       /\ transcriptCalls = 0
       /\ genCalls = 0

\* C3: the fetcher has been called with "not a url" and has failed.
C3_Witness ==
    /\ pc = "fetched"
    /\ youtube_link = NotAUrl
    /\ extract_video_id(youtube_link) = None
    /\ transcript = None
    /\ "error_invalid_url" \in shown
    /\ transcriptCalls = 0

RECURSIVE Offset(_, _)
\* Where fragment i starts in the joined text, counted from 0.
Offset(fs, i) ==
    IF i = 1 THEN 0 ELSE Offset(fs, i - 1) + Len(fs[i - 1]) + 1

\* t is the texts fs in their order with exactly one space between
\* neighbours and nothing else.
IsSpaceJoined(t, fs) ==
    IF fs = << >> THEN t = << >>
    ELSE /\ t # None
         /\ Len(t) = Offset(fs, Len(fs)) + Len(fs[Len(fs)])
         /\ \A i \in 1..Len(fs) :
               /\ \A k \in 1..Len(fs[i]) : t[Offset(fs, i) + k] = fs[i][k]
               /\ i < Len(fs) => t[Offset(fs, i) + Len(fs[i]) + 1] = " "

\* C7: after a successful fetch the returned text is the fragments' texts in
\* the order of the reply, one space between neighbours; after any failure
\* nothing is returned.
C7_TranscriptIsSpaceJoinedOrNone ==
    pc = "fetched"
    => IF Called("get_transcript:ok")
       THEN IsSpaceJoined(transcript, fragments)
       ELSE transcript = None

\* C7: the service has answered [A, B, C] and the fetcher returned "A B C".
C7_Witness ==
    /\ pc = "fetched"
    /\ Called("get_transcript:ok")
    /\ fragments = << << "A" >>, << "B" >>, << "C" >> >>
    /\ transcript = << "A", " ", "B", " ", "C" >>

-----------------------------------------------------------------------------
(* Properties of the request lifecycle, checked under Spec *)

\* C4: a failed transcript call is shown as an error and the run never
\* calls generate_gemini_content; a request to the generative service comes
\* after a successful transcript call of the same run.
C4_NoSummaryAfterFailedFetch ==
    /\ Called("get_transcript:raise")
       => /\ "error_transcript" \in shown
          /\ transcript = None
          /\ ~Called("generate_gemini_content")
          /\ ~Called("generate_content")
          /\ pc # "summarizing"
    /\ \A i \in 1..Len(runCalls) :
          runCalls[i] \in { "generate_gemini_content", "generate_content" }
          => \E j \in 1..(i - 1) : runCalls[j] = "get_transcript:ok"
    /\ pc = "summarizing" => Called("get_transcript:ok")

\* C4: an Analyze run whose transcript call failed has ended.
C4_Witness ==
    /\ pc = "done"
    /\ analyze_button
    /\ Called("get_transcript:raise")
    /\ "error_transcript" \in shown
    /\ ~Called("generate_gemini_content")

\* C5: an Analyze run that has ended shows exactly one of the transcript
\* error, the generation error and the summary, and a transcript call that
\* did not fail was followed by the call of generate_gemini_content.
C5_EveryRequestEndsInATerminalState ==
    pc = "done" /\ analyze_button
    => /\ Cardinality(shown \cap { "error_invalid_url", "error_transcript",
                                   "error_generation", "summary" }) = 1
       /\ Called("get_transcript:ok") => Called("generate_gemini_content")

\* C6: every prompt sent is the template of the radio's mode followed by the
\* transcript, and nothing else.
C6_PromptIsTemplateThenTranscript ==
    \A i \in 1..Len(sent) :
        LET t == IF summary_type = "Quick Summary"
                 THEN QuickTemplate ELSE DetailedTemplate
        IN  /\ transcript # None
            /\ Len(sent[i]) = Len(t) + Len(transcript)
            /\ SubSeq(sent[i], 1, Len(t)) = t
            /\ SubSeq(sent[i], Len(t) + 1, Len(sent[i])) = transcript

\* C6: a quick summary has been asked for.
C6_Witness ==
    /\ pc = "done"
    /\ summary_type = "Quick Summary"
    /\ Len(sent) = 1
    /\ Truthy(transcript)
    /\ SubSeq(sent[1], 1, Len(QuickTemplate)) = QuickTemplate

\* An Analyze run that has not yet reached the call of the fetcher.
FetchPending ==
    analyze_button /\ pc \in { "startup", "main", "fetching" }

\* C8: a call of generate_gemini_content sends exactly one request, a call of
\* extract_transcript_details at most one, a run calls each at most once, and
\* every Analyze click, a repeated one included, has its own transcript
\* request and, with a transcript, its own generation request.
C8_OneRequestPerCallNoRetryNoCache ==
    /\ Count(runCalls, "generate_content")
          = Count(runCalls, "generate_gemini_content")
    /\ Len(sent) = Count(runCalls, "generate_content")
    /\ Len(requested) = Count(runCalls, "get_transcript:ok")
                          + Count(runCalls, "get_transcript:raise")
    /\ Len(requested) <= Count(runCalls, "extract_transcript_details")
    /\ Count(runCalls, "extract_transcript_details") <= 1
    /\ Count(runCalls, "generate_gemini_content") <= 1
    /\ transcriptCalls = IF FetchPending THEN clicks - 1 ELSE clicks
    /\ genCalls <= transcriptCalls
    /\ pc = "done" /\ analyze_button
       => /\ Len(requested) = 1
          /\ Len(sent) = IF Truthy(transcript) THEN 1 ELSE 0

\* C8: the second Analyze of an unchanged link has ended, and both services
\* have been asked twice.
C8_Witness ==
    /\ pc = "done"
    /\ sameLinkClicks = 2
    /\ Len(requested) = 1
    /\ Len(sent) = 1
    /\ transcriptCalls = 2
    /\ genCalls = 2

\* C9: without a credential the run never gets past the start: nothing is
\* configured, extracted, fetched or summarised.
C9_NoCredentialNoRequest ==
    (api_key = None \/ api_key = << >>)
    => /\ ~configured
       /\ pc \in { "startup", "stopped" }
       /\ runCalls = << >>
       /\ video_id = None
       /\ transcript = None
       /\ summary = None
       /\ transcriptCalls = 0
       /\ genCalls = 0
       /\ shown \subseteq { "config_error" }

\* C9: the script has stopped on an empty credential.
C9_Witness ==
    /\ api_key = << >>
    /\ pc = "stopped"
    /\ "config_error" \in shown
    /\ ~configured

\* C10: in a run of main the fetcher never fails on an invalid URL: the
\* button is on the page, and a run starts with it set, only for a link with
\* an id; the fetcher runs only with the button set and asks for the id main
\* extracted; and a link without an id gives the warning and no call.
C10_InvalidUrlFailureUnreachable ==
    /\ "error_invalid_url" \notin shown
    /\ \/ pc = "idle" /\ "preview" \in shown
       \/ pc = "startup" /\ analyze_button
       => extract_video_id(youtube_link) # None
    /\ Called("extract_transcript_details") => analyze_button
    /\ Called("extract_transcript_details")
       => /\ video_id # None
          /\ requested = << video_id >>
    /\ "warning" \in shown
       => /\ "preview" \notin shown
          /\ ~Called("extract_transcript_details")
          /\ ExternalCalls = 0
          /\ requested = << >>
          /\ sent = << >>

\* C10: an Analyze run has asked the transcript service for the id that main
\* extracted from the link.
C10_Witness ==
    /\ pc = "done"
    /\ analyze_button
    /\ Called("extract_transcript_details")
    /\ video_id = IdRick
    /\ requested = << IdRick >>

=============================================================================
